---------------------------- MODULE Spec2Model ----------------------------
(***************************************************************************)
(* State-machine model of src/mediawiki.py: the two MediaWiki API clients  *)
(* MediaWikiAPI1_19 ("1_19", legacy dialect) and MediaWikiAPI1_31 ("1_31", *)
(* modern dialect).  Python dicts (request parameters, decoded JSON        *)
(* bodies, token caches) are functions whose domain is a set of strings;   *)
(* `k in d` is  k \in DOMAIN d.  Page titles of a listing are the integers *)
(* 1..N, whose numeric order stands for the ascending title order.         *)
(***************************************************************************)
EXTENDS Integers, Sequences, FiniteSets, TLC

VARIABLES
    client,   \* client instance id -> the instance's fields (variant, token caches)
    wiki,     \* the platform: how many entries its listings hold
    gen,      \* generator id -> state of one lazy sequence of a paged operation
    last,     \* the most recent completed (non-generator) call: requests and outcome
    hist,     \* facts accumulated over the calls completed so far
    thread    \* thread id -> position of an edit_page / delete_page call it runs

vars == <<client, wiki, gen, last, hist, thread>>

(***************************** bounds **************************************)
MaxN == 3          \* entries held by a listing of the platform
MaxLimit == 2      \* largest page size a caller passes
MaxReq == 4        \* requests one lazy sequence may issue
MaxCalls == 3      \* edit / delete calls of one session
MaxLate == 1       \* pulls made on a lazy sequence after it has ended

(***************************** dicts ***************************************)
EmptyDict == [k \in {} |-> 0]

\* dict.update / copy-then-update: the entries of e override those of d
DictUpdate(d, e) == [k \in (DOMAIN d) \cup (DOMAIN e) |->
                        IF k \in DOMAIN e THEN e[k] ELSE d[k]]

None == "<None>"

Min(a, b) == IF a < b THEN a ELSE b

RECURSIVE Flatten(_)
Flatten(ss) == IF ss = <<>> THEN <<>> ELSE Head(ss) \o Flatten(Tail(ss))

(***************************** errors **************************************)
StatusOK == 200
Statuses == {StatusOK, 500}

\* raise MediaWikiAPIError('Status code is {}'.format(r.status_code))
StatusError(code) == [exc |-> "MediaWikiAPIError", msg |-> "Status code is", val |-> code]
\* raise MediaWikiAPIError(data['error'])
ApiError(err) == [exc |-> "MediaWikiAPIError", msg |-> "error", val |-> err]
\* raise MediaWikiAPIError(data['warning'])
WarningError(w) == [exc |-> "MediaWikiAPIError", msg |-> "warning", val |-> w]
\* raise CanNotDelete(data['error']['info'])
CanNotDelete(info) == [exc |-> "CanNotDelete", msg |-> "info", val |-> info]
\* raise MediaWikiAPIError('Login result is {}'.format(result))
LoginError(result) == [exc |-> "MediaWikiAPIError", msg |-> "Login result is", val |-> result]
\* a dict lookup of a key the dict does not hold
KeyError(key) == [exc |-> "KeyError", msg |-> "key", val |-> key]
NotImplemented == [exc |-> "NotImplementedError", msg |-> "", val |-> ""]
NoError == [exc |-> None, msg |-> "", val |-> ""]

(***************************** return values *******************************)
\* what a completed call returned: None, a str, or a list of int
NoValue == [kind |-> "None", text |-> "", ids |-> <<>>]
TextValue(text) == [kind |-> "str", text |-> text, ids |-> <<>>]
ListValue(ids) == [kind |-> "list", text |-> "", ids |-> ids]

(***************************** paged operations ****************************)
Variants == {"1_19", "1_31"}
PagedOps == {"get_image_list", "get_page_list", "search_pages", "get_deletedrevs_list"}

\* the 'list' parameter of each paged operation, also the key of its result list
ListName(op) ==
    CASE op = "get_image_list" -> "allimages"
      [] op = "get_page_list" -> "allpages"
      [] op = "search_pages" -> "search"
      [] op = "get_deletedrevs_list" -> "deletedrevs"

\* the base parameters each paged operation builds before its loop
\* (an Optional argument is a sequence of length at most one)
BaseParams(op, namespace, limit, first_page) ==
    CASE op = "get_image_list" ->
            [action |-> "query", list |-> "allimages", aidir |-> "ascending",
             ailimit |-> limit, format |-> "json"]
      [] op = "get_page_list" ->
            DictUpdate(
                [action |-> "query", list |-> "allpages", apnamespace |-> namespace,
                 apdir |-> "ascending", apfilterredir |-> "all", aplimit |-> limit,
                 format |-> "json"],
                IF first_page # <<>> THEN [apfrom |-> first_page[1]] ELSE EmptyDict)
      [] op = "search_pages" ->
            [action |-> "query", list |-> "search", srnamespace |-> namespace,
             srlimit |-> limit, format |-> "json", srsearch |-> "text",
             srwhat |-> "text"]
      [] op = "get_deletedrevs_list" ->
            [action |-> "query", list |-> "deletedrevs", drnamespace |-> namespace,
             drdir |-> "newer", drlimit |-> limit,
             drprop |-> "revid|user|comment|content", format |-> "json"]

\* the field of a decoded response that carries the continuation cursor
ContField(variant) == IF variant = "1_19" THEN "query-continue" ELSE "continue"

\* the values one entry of a result list makes the generator yield
ItemYields(op, item) ==
    CASE op = "get_image_list" -> << [title |-> item.title, url |-> item.url] >>
      [] op = "get_page_list" -> << item.title >>
      [] op = "search_pages" -> << item.title >>
      [] op = "get_deletedrevs_list" ->
            [i \in 1..Len(item.revisions) |->
                DictUpdate(item.revisions[i], [title |-> item.title])]

PageYields(op, items) == Flatten([i \in 1..Len(items) |-> ItemYields(op, items[i])])


(***************************** the platform: listings **********************)
LimitKey(list) ==
    CASE list = "allimages" -> "ailimit"
      [] list = "allpages" -> "aplimit"
      [] list = "search" -> "srlimit"
      [] list = "deletedrevs" -> "drlimit"

\* the parameter under which each dialect's listing hands out its cursor
CursorKey(variant, list) ==
    IF variant = "1_19"
    THEN CASE list = "allimages" -> "aifrom"
           [] list = "allpages" -> "apfrom"
           [] list = "search" -> "sroffset"
           [] list = "deletedrevs" -> "drstart"
    ELSE CASE list = "allimages" -> "aicontinue"
           [] list = "allpages" -> "apcontinue"
           [] list = "search" -> "sroffset"
           [] list = "deletedrevs" -> "drcontinue"

\* entry i of a listing, as the platform reports it
ListEntry(list, i) ==
    CASE list = "allimages" -> [title |-> i, url |-> i, name |-> i]
      [] list = "allpages" -> [title |-> i, pageid |-> i]
      [] list = "search" -> [title |-> i, size |-> i]
      [] list = "deletedrevs" ->
            [title |-> i,
             revisions |-> [r \in 1..(1 + (i % 2)) |-> [revid |-> 10 * i + r]]]

\* where a listing request starts reading: at its cursor, else at apfrom, else at 1
StartOf(variant, req) ==
    LET ck == CursorKey(variant, req["list"])
    IN  IF ck \in DOMAIN req THEN req[ck]
        ELSE IF "apfrom" \in DOMAIN req THEN req["apfrom"]
        ELSE 1

\* how many entries remain from the start of request req
Remaining(variant, req) ==
    LET s == StartOf(variant, req)
    IN  IF s > wiki.n THEN 0 ELSE wiki.n - s + 1

ErrorBody(code) == [error |-> [code |-> code, info |-> "info"]]

\* the body of a listing response that returns k entries: the continuation
\* cursor is present exactly when entries remain after them
ListBody(variant, req, k) ==
    LET list == req["list"]
        s == StartOf(variant, req)
        items == [i \in 1..k |-> ListEntry(list, s + i - 1)]
        more == k < Remaining(variant, req)
        ck == CursorKey(variant, list)
        cont == IF ~more THEN EmptyDict
                ELSE IF variant = "1_19"
                     THEN ("query-continue" :> (list :> (ck :> (s + k))))
                     ELSE ("continue" :> ((ck :> (s + k)) @@ ("continue" :> "-||")))
    IN  DictUpdate("query" :> (list :> items), cont)

\* the platform's cursors do not all hold the same keys: a cursor that
\* points at an even position carries one more key
WithExtraKey(variant, body, list) ==
    LET ck == CursorKey(variant, list)
    IN  IF variant = "1_19" /\ "query-continue" \in DOMAIN body
        THEN IF body["query-continue"][list][ck] % 2 = 0
             THEN [body EXCEPT !["query-continue"][list] = @ @@ ("rawcontinue" :> "1")]
             ELSE body
        ELSE IF variant = "1_31" /\ "continue" \in DOMAIN body
        THEN IF body["continue"][ck] % 2 = 0
             THEN [body EXCEPT !["continue"] = @ @@ ("rawcontinue" :> "1")]
             ELSE body
        ELSE body

Response(status, body) == [status_code |-> status, json |-> body]

(***************************** lazy sequences ******************************)
NoGen == [pc |-> "none", self |-> "", op |-> "", limit |-> 0, first_page |-> <<>>,
          params |-> EmptyDict, last_continue |-> EmptyDict, data |-> EmptyDict,
          rest |-> <<>>, yielded |-> <<>>, trace |-> <<>>, exc |-> NoError,
          pulls |-> 0, late |-> 0]

\* mutant: the cursor is kept between calls (that of the first sequence)
InitialCursor_Carried == gen["g1"].last_continue

\* last_continue: Dict[str, Any] = {}  at the start of every call
InitialCursor == EmptyDict

\* mutant: the operation runs to its first request when it is called
GenCreated_Eager == "request"

\* a generator function runs none of its body when it is called
GenCreated == "created"

\* mutant: a failed request is issued again, once
Raise_RetryOnce(g, exc) ==
    IF Len(g.trace) < 2 THEN [g EXCEPT !.pc = "request"]
    ELSE [g EXCEPT !.pc = "failed", !.exc = exc]

\* raise inside the generator: the exception leaves through the running pull
\* and the generator is finished
Raise(g, exc) == [g EXCEPT !.pc = "failed", !.exc = exc]

\* mutant: the loop also stops on a page shorter than the limit
GenAfterPage_ShortPage(variant, g) ==
    LET list == ListName(g.op)
    IN  IF \/ ContField(variant) \notin DOMAIN g.data
           \/ Len(g.data["query"][list]) < g.limit
        THEN [g EXCEPT !.pc = "done"]
        ELSE [g EXCEPT !.pc = "request",
                       !.last_continue =
                            IF variant = "1_19" THEN g.data["query-continue"][list]
                            ELSE g.data["continue"]]

\* mutant: the new cursor is merged into the one held
NextCursor_Merge(last_continue, cursor) == DictUpdate(last_continue, cursor)

\* last_continue = <the cursor mapping of the response>
NextCursor(last_continue, cursor) == cursor

\* the end of the for loop over one response: break when the continuation
\* field is absent, else take the cursor for the next request
GenAfterPage(variant, g) ==
    LET list == ListName(g.op)
    IN  IF ContField(variant) \notin DOMAIN g.data
        THEN [g EXCEPT !.pc = "done"]
        ELSE IF variant = "1_19"
             THEN IF list \in DOMAIN g.data["query-continue"]
                  THEN [g EXCEPT !.pc = "request",
                                 !.last_continue =
                                    NextCursor(@, g.data["query-continue"][list])]
                  ELSE Raise(g, KeyError(list))
             ELSE [g EXCEPT !.pc = "request",
                            !.last_continue = NextCursor(@, g.data["continue"])]

\* mutant: the status of a response is not looked at
ResponseError_IgnoreStatus(r) ==
    IF "error" \in DOMAIN r.json THEN ApiError(r.json["error"]) ELSE NoError

\* the checks every paged operation makes on a response: the status, then
\* the error field of the decoded body (NoError: the response passes)
ResponseError(r) ==
    IF r.status_code # StatusOK THEN StatusError(r.status_code)
    ELSE IF "error" \in DOMAIN r.json THEN ApiError(r.json["error"])
    ELSE NoError

\* the loop body from the response to the next suspension: classify the
\* response, extract the result list, yield its first value
GenOnResponse(variant, g0, cur, r) ==
    LET g == [g0 EXCEPT !.trace = Append(@, [params |-> cur,
                                            status_code |-> r.status_code,
                                            json |-> r.json])]
        list == ListName(g.op)
    IN  IF ResponseError(r) # NoError
        THEN Raise(g, ResponseError(r))
        ELSE LET ys == PageYields(g.op, r.json["query"][list])
                 g1 == [g EXCEPT !.data = r.json]
             IN  IF ys # <<>>
                 THEN [g1 EXCEPT !.pc = "suspended",
                                 !.yielded = Append(@, Head(ys)),
                                 !.rest = Tail(ys)]
                 ELSE GenAfterPage(variant, g1)

\* mutant: the cursor is not merged into the request
CurrentParams_NoCursor(g) == g.params

\* current_params = params.copy(); current_params.update(last_continue)
CurrentParams(g) == DictUpdate(g.params, g.last_continue)

\* Calling a paged operation: a generator object is made and nothing runs.
\* search_pages of 1_19 is no generator function: it raises at the call.
CallPaged(c, id, op, limit, first_page) ==
    /\ gen[id].pc = "none"
    /\ IF client[c].variant = "1_19" /\ op = "search_pages"
       THEN /\ last' = [self |-> c, op |-> op, title |-> "", reqs |-> <<>>,
                        outcome |-> NotImplemented, value |-> NoValue]
            /\ UNCHANGED gen
       ELSE /\ gen' = [gen EXCEPT ![id] =
                        [NoGen EXCEPT !.pc = GenCreated, !.self = c, !.op = op,
                            !.limit = limit, !.first_page = first_page,
                            !.last_continue = InitialCursor,
                            !.params = BaseParams(op, 0, limit, first_page)]]
            /\ UNCHANGED last
    /\ UNCHANGED <<client, wiki, hist, thread>>

\* The consumer asks for the next value (pulls counts its requests for one):
\* the generator resumes.  It either yields the next value of the current
\* response, or leaves the for loop.
Pull(id) ==
    LET g == [gen[id] EXCEPT !.pulls = @ + 1]
        variant == client[g.self].variant
    IN  /\ g.pc \in {"created", "suspended"}
        /\ gen' = [gen EXCEPT ![id] =
                IF g.pc = "created" THEN [g EXCEPT !.pc = "request"]
                ELSE IF g.rest # <<>>
                     THEN [g EXCEPT !.yielded = Append(@, Head(g.rest)),
                                    !.rest = Tail(g.rest)]
                     ELSE GenAfterPage(variant, g)]
        /\ UNCHANGED <<client, wiki, last, hist, thread>>

\* The consumer asks a generator that has returned or raised for a value: it
\* gets StopIteration, and no code of the operation runs.
LatePull(id) ==
    /\ gen[id].pc \in {"done", "failed"}
    /\ gen[id].late < MaxLate
    /\ gen' = [gen EXCEPT ![id].late = @ + 1]
    /\ UNCHANGED <<client, wiki, last, hist, thread>>

\* The resumed generator issues its request and runs on to its next
\* suspension; the platform answers with k entries, or with a failure.
FetchWith(id, s, ok, k) ==
    LET g == gen[id]
        variant == client[g.self].variant
        cur == CurrentParams(g)
    IN  /\ g.pc = "request"
        /\ Len(g.trace) < MaxReq
        /\ k \in 0..Min(cur[LimitKey(cur["list"])], Remaining(variant, cur))
        /\ (~ok => k = 0)
        /\ gen' = [gen EXCEPT ![id] =
                GenOnResponse(variant, g, cur,
                    Response(s, IF ok
                                THEN WithExtraKey(variant,
                                        ListBody(variant, cur, k), cur["list"])
                                ELSE ErrorBody("internal_api_error")))]
        /\ UNCHANGED <<client, wiki, last, hist, thread>>

Fetch(id) ==
    \E s \in Statuses, ok \in BOOLEAN, k \in 0..gen[id].limit :
        FetchWith(id, s, ok, k)

(***************************** construction ********************************)
\* __init__ of either class: empty token caches
NewClient(variant) ==
    [variant |-> variant, edit_tokens |-> EmptyDict, delete_tokens |-> EmptyDict,
     csrf_token |-> None]

NoCall == [self |-> "", op |-> "", title |-> "", reqs |-> <<>>, outcome |-> NoError,
           value |-> NoValue]
NoHist == [ncalls |-> 0, nfetch |-> 0, nmut |-> 0, fetch_failed |-> FALSE,
           unfetched |-> FALSE, fetched |-> {}, returned |-> {}, sent |-> {},
           called |-> {}]

\* a thread that runs no call; got holds what its token fetch returned, in a
\* sequence, until it is stored
NoThread == [pc |-> "idle", self |-> "", op |-> "", page_name |-> "",
             got |-> <<>>, reqs |-> <<>>, outcome |-> NoError]
Threads == {"t1", "t2"}
NoThreads == [t \in Threads |-> NoThread]

(***************************** the platform: tokens and mutations **********)
Titles == {"A", "B", "b"}
Tokens == {"tok1", "tok2"}

\* the platform reports a page under its normalised title (first letter upper case)
Normalize(title) == IF title = "b" THEN "B" ELSE title

\* '{}token'.format(token_type)
TokenKey(token_type) ==
    CASE token_type = "edit" -> "edittoken"
      [] token_type = "delete" -> "deletetoken"
      [] token_type = "csrf" -> "csrftoken"
      [] token_type = "login" -> "logintoken"

WarningDict == [warning |-> [main |-> "deprecated"]]

\* body of the 1_19 answer to prop=info&intoken=...: one page entry, keyed by
\* page id, holding the normalised title and the token
PageTokenBody(token_type, titles, tok) ==
    [query |-> [pages |->
        ("1" :> ((TokenKey(token_type) :> tok) @@ [title |-> Normalize(titles)]))]]

\* body of the 1_31 answer to meta=tokens&type=...
MetaTokenBody(token_type, tok) ==
    [query |-> [tokens |-> (TokenKey(token_type) :> tok)]]

\* the bodies the platform may give a token request: the payload, the payload
\* with a warning, or an error alone
TokenBody(variant, params, kind, tok) ==
    LET payload == IF variant = "1_19"
                   THEN PageTokenBody(params["intoken"], params["titles"], tok)
                   ELSE MetaTokenBody(params["type"], tok)
    IN  CASE kind = "ok" -> payload
          [] kind = "warning" -> DictUpdate(payload, WarningDict)
          [] kind = "error" -> ErrorBody("readapidenied")

BodyKinds == {"ok", "warning", "error"}

\* the bodies the platform may give an edit or delete request
MutationBody(params, code) ==
    IF code = "" THEN (params["action"] :> [result |-> "Success"])
    ELSE ErrorBody(code)

ErrorCodes == {"", "cantdelete", "permissiondenied"}

\* one request with the response it got
Exchange(method, url, params, r) ==
    [method |-> method, url |-> url, params |-> params,
     status_code |-> r.status_code, json |-> r.json]

\* what a helper or an operation hands back: the requests it issued, the
\* exception it raised (NoError: none) and its return value
Returned(reqs, value) == [reqs |-> reqs, exc |-> NoError, value |-> value]
Raised(reqs, exc) == [reqs |-> reqs, exc |-> exc, value |-> None]

(***************************** MediaWikiAPI1_19: tokens, edit, delete ******)
GetTokensParams(token_type, titles) ==
    [action |-> "query", prop |-> "info", titles |-> titles,
     intoken |-> token_type, format |-> "json"]

\* get_tokens: the dict title -> token of the pages the platform reports
GetTokens(token_type, titles, r) ==
    LET x == << Exchange("POST", "api", GetTokensParams(token_type, titles), r) >>
        data == r.json
    IN  IF r.status_code # StatusOK THEN Raised(x, StatusError(r.status_code))
        ELSE IF "error" \in DOMAIN data THEN Raised(x, ApiError(data["error"]))
        ELSE IF "warning" \in DOMAIN data THEN Raised(x, WarningError(data["warning"]))
        ELSE LET pages == data["query"]["pages"]
                 titlesOf == {pages[k]["title"] : k \in DOMAIN pages}
             IN  Returned(x, [t \in titlesOf |->
                    LET k == CHOOSE k \in DOMAIN pages : pages[k]["title"] = t
                    IN  pages[k][TokenKey(token_type)]])

\* mutant: the cache is never consulted
TokenMissing_Always(cache, page_name) == TRUE

\* if page_name not in self.delete_tokens / self.edit_tokens
TokenMissing(cache, page_name) == page_name \notin DOMAIN cache

\* the exception delete_page of 1_19 raises for an error field
DeleteError1_19(err) ==
    IF err["code"] = "cantdelete" THEN CanNotDelete(err["info"]) ELSE ApiError(err)

\* the requests reqs, then what res tells
Prepend(reqs, res) == [res EXCEPT !.reqs = reqs \o @]

\* delete_page and edit_page of 1_19 from the token lookup on: the token is
\* read from the cache, the request is sent, the response is classified
Send1_19(action, cache, page_name, base, mr) ==
    IF page_name \notin DOMAIN cache THEN Raised(<<>>, KeyError(page_name))
    ELSE LET params == DictUpdate(base, [token |-> << cache[page_name] >>])
             x == << Exchange("POST", "api", params, mr) >>
             data == mr.json
         IN  IF mr.status_code # StatusOK
             THEN Raised(x, StatusError(mr.status_code))
             ELSE IF "error" \in DOMAIN data
             THEN IF action = "delete"
                  THEN Raised(x, DeleteError1_19(data["error"]))
                  ELSE Raised(x, ApiError(data["error"]))
             ELSE Returned(x, None)

\* the common shape of delete_page and edit_page of 1_19: cache holds the
\* instance's tokens of this type; the result carries the new cache
Mutate1_19(action, cache, page_name, base, tr, mr) ==
    LET got == IF TokenMissing(cache, page_name)
               THEN GetTokens(action, page_name, tr)
               ELSE Returned(<<>>, EmptyDict)
        cache1 == IF got.exc = NoError THEN DictUpdate(cache, got.value) ELSE cache
    IN  IF got.exc # NoError THEN [cache |-> cache, res |-> Raised(got.reqs, got.exc)]
        ELSE [cache |-> cache1,
              res |-> Prepend(got.reqs, Send1_19(action, cache1, page_name, base, mr))]

(***************************** MediaWikiAPI1_31: token, edit, delete *******)
GetTokenParams(token_type) ==
    [action |-> "query", meta |-> "tokens", type |-> token_type, format |-> "json"]

\* get_token: no error field is looked at; the token is read from the payload
GetToken(token_type, r) ==
    LET x == << Exchange("GET", "api", GetTokenParams(token_type), r) >>
        data == r.json
    IN  IF r.status_code # StatusOK THEN Raised(x, StatusError(r.status_code))
        ELSE IF "query" \notin DOMAIN data THEN Raised(x, KeyError("query"))
        ELSE Returned(x, data["query"]["tokens"][TokenKey(token_type)])

\* mutant: the stored token is never found
CsrfMissing_Always(csrf_token) == TRUE

\* if self.csrf_token is None
CsrfMissing(csrf_token) == csrf_token = None

\* mutant: a store into a slot that holds a token leaves a torn value
StoreCsrf_Torn(csrf_token, value) ==
    IF csrf_token = None THEN value ELSE "torn"

\* self.csrf_token = <the value get_token returned>
StoreCsrf(csrf_token, value) == value

\* delete_page and edit_page of 1_31 after the if statement: the token is
\* read from the slot, the request is sent, the response is classified
Send1_31(csrf_token, base, mr) ==
    LET params == DictUpdate(base, [token |-> csrf_token])
        x == << Exchange("POST", "api", params, mr) >>
        data == mr.json
    IN  IF mr.status_code # StatusOK THEN Raised(x, StatusError(mr.status_code))
        ELSE IF "error" \in DOMAIN data THEN Raised(x, ApiError(data["error"]))
        ELSE Returned(x, None)

\* the common shape of delete_page and edit_page of 1_31
Mutate1_31(csrf_token, base, tr, mr) ==
    LET got == IF CsrfMissing(csrf_token) THEN GetToken("csrf", tr)
               ELSE Returned(<<>>, csrf_token)
        csrf1 == IF CsrfMissing(csrf_token) /\ got.exc = NoError
                 THEN StoreCsrf(csrf_token, got.value)
                 ELSE csrf_token
    IN  IF got.exc # NoError THEN [csrf |-> csrf_token, res |-> Raised(got.reqs, got.exc)]
        ELSE [csrf |-> csrf1, res |-> Prepend(got.reqs, Send1_31(csrf1, base, mr))]

DeleteParams(page_name, reason) ==
    DictUpdate([action |-> "delete", title |-> page_name, format |-> "json"],
               IF reason # <<>> THEN [reason |-> reason[1]] ELSE EmptyDict)

EditParams(page_name, text, summary) ==
    DictUpdate([action |-> "edit", title |-> page_name, text |-> text,
                format |-> "json"],
               IF summary # <<>> THEN [summary |-> summary[1]] ELSE EmptyDict)

(***************************** login ****************************************)
LoginResults == {"Success", "NeedToken", "Failed", "WrongToken"}
LoginTokens == {"ltok1", "ltok2"}

\* the bodies the platform may give a login request: an error alone, or the
\* login result (with the token to send back when it is NeedToken), with or
\* without a warning
LoginBody(result, tok, warning, error) ==
    IF error THEN ErrorBody("readapidenied")
    ELSE DictUpdate(
            [login |-> IF result = "NeedToken" THEN [result |-> result, token |-> tok]
                       ELSE [result |-> result]],
            IF warning THEN WarningDict ELSE EmptyDict)

LoginParams(username, password) ==
    [action |-> "login", format |-> "json", lgname |-> username,
     lgpassword |-> password]

\* mutant: the challenge is not answered
NeedsSecondAttempt_Never(result) == FALSE

\* the first result that makes api_login of 1_19 send the second request
NeedsSecondAttempt(result) == result = "NeedToken"

\* api_login of 1_19 after a response: status, error field, warning field
LoginCheck(x, r) ==
    IF r.status_code # StatusOK THEN StatusError(r.status_code)
    ELSE IF "error" \in DOMAIN r.json THEN ApiError(r.json["error"])
    ELSE IF "warning" \in DOMAIN r.json THEN WarningError(r.json["warning"])
    ELSE NoError

\* api_login of MediaWikiAPI1_19
ApiLogin1_19(username, password, r1, r2) ==
    LET params1 == LoginParams(username, password)
        x1 == << Exchange("POST", "api", params1, r1) >>
        data1 == r1.json
    IN  IF LoginCheck(x1, r1) # NoError THEN Raised(x1, LoginCheck(x1, r1))
        ELSE IF data1["login"]["result"] = "Success" THEN Returned(x1, None)
        ELSE IF ~NeedsSecondAttempt(data1["login"]["result"])
        THEN Raised(x1, LoginError(data1["login"]["result"]))
        ELSE LET params2 == DictUpdate(LoginParams(username, password),
                                       [lgtoken |-> data1["login"]["token"]])
                 x2 == x1 \o << Exchange("POST", "api", params2, r2) >>
                 data2 == r2.json
             IN  IF LoginCheck(x2, r2) # NoError THEN Raised(x2, LoginCheck(x2, r2))
                 ELSE IF data2["login"]["result"] # "Success"
                 THEN Raised(x2, LoginError(data2["login"]["result"]))
                 ELSE Returned(x2, None)

\* api_login of MediaWikiAPI1_31: a login token, then the credentials; the
\* response is checked for its status and its error field only
ApiLogin1_31(username, password, tr, r) ==
    LET got == GetToken("login", tr)
    IN  IF got.exc # NoError THEN Raised(got.reqs, got.exc)
        ELSE LET params == DictUpdate(LoginParams(username, password),
                                      [lgtoken |-> got.value])
                 x == got.reqs \o << Exchange("POST", "api", params, r) >>
             IN  IF r.status_code # StatusOK THEN Raised(x, StatusError(r.status_code))
                 ELSE IF "error" \in DOMAIN r.json
                 THEN Raised(x, ApiError(r.json["error"]))
                 ELSE Returned(x, None)

(***************************** history *************************************)
\* a request for the login token of 1_31
IsLoginTokenFetch(x) ==
    /\ x.params["action"] = "query"
    /\ "meta" \in DOMAIN x.params
    /\ x.params["meta"] = "tokens"
    /\ x.params["type"] = "login"
\* a request for an edit, delete or csrf token
IsTokenFetch(x) ==
    /\ x.params["action"] = "query"
    /\ \/ "intoken" \in DOMAIN x.params
       \/ "meta" \in DOMAIN x.params /\ x.params["meta"] = "tokens"
    /\ ~IsLoginTokenFetch(x)
IsMutation(x) == x.params["action"] \in {"edit", "delete"}
IsLoginRequest(x) == x.params["action"] = "login"

\* the token fetch returned tokens to its caller
FetchReturned(x) ==
    /\ x.status_code = StatusOK
    /\ "query" \in DOMAIN x.json
    /\ "intoken" \in DOMAIN x.params =>
            "error" \notin DOMAIN x.json /\ "warning" \notin DOMAIN x.json

\* the (token type, title) pairs a 1_19 token fetch returned entries for
KeysReturned(x) ==
    IF IsTokenFetch(x) /\ FetchReturned(x) /\ "intoken" \in DOMAIN x.params
    THEN {<<x.params["intoken"], x.json["query"]["pages"][k]["title"]>> :
            k \in DOMAIN x.json["query"]["pages"]}
    ELSE {}

RECURSIVE Record(_, _)
\* the history after the exchanges xs, in order
Record(h, xs) ==
    IF xs = <<>> THEN h
    ELSE LET x == Head(xs)
             h1 == IF IsTokenFetch(x)
                   THEN [h EXCEPT !.nfetch = @ + 1,
                                  !.fetch_failed = @ \/ ~FetchReturned(x),
                                  !.fetched = @ \cup
                                     (IF FetchReturned(x) /\ "meta" \in DOMAIN x.params
                                      THEN {x.json["query"]["tokens"][TokenKey(x.params["type"])]}
                                      ELSE {}),
                                  !.returned = @ \cup KeysReturned(x)]
                   ELSE IF IsMutation(x)
                   THEN [h EXCEPT !.nmut = @ + 1,
                                  !.unfetched = @ \/ h.nfetch = 0,
                                  !.sent = @ \cup {x.params["token"]}]
                   ELSE h
         IN  Record(h1, Tail(xs))

\* a call has ended, returning value unless it raised: it becomes the last
\* call and enters the history
Finished(c, op, title, res, value) ==
    /\ last' = [self |-> c, op |-> op, title |-> title, reqs |-> res.reqs,
                outcome |-> res.exc, value |-> value]
    /\ hist' = Record([hist EXCEPT !.ncalls = @ + 1,
                                    !.called = @ \cup {<<op, title>>}], res.reqs)

\* a call that returns None has ended
Completed(c, op, title, res) == Finished(c, op, title, res, NoValue)

(***************************** edit and delete actions *********************)
\* mutant: the token caches are attributes of the class, shared by its instances
AttributeOwners_Class(c) == {"c1", "c2"}

\* the instances whose fields an assignment to self.<field> of instance c
\* changes: the caches are made per instance in __init__
AttributeOwners(c) == {c}

\* delete_page of either class
DeletePage(c, page_name, reason, tr, mr) ==
    LET base == DeleteParams(page_name, reason)
    IN  /\ hist.ncalls < MaxCalls
        /\ IF client[c].variant = "1_19"
           THEN LET m == Mutate1_19("delete", client[c].delete_tokens, page_name,
                                    base, tr, mr)
                IN  /\ client' = [d \in DOMAIN client |->
                                    IF d \in AttributeOwners(c)
                                    THEN [client[d] EXCEPT !.delete_tokens = m.cache]
                                    ELSE client[d]]
                    /\ Completed(c, "delete_page", page_name, m.res)
           ELSE LET m == Mutate1_31(client[c].csrf_token, base, tr, mr)
                IN  /\ client' = [d \in DOMAIN client |->
                                    IF d \in AttributeOwners(c)
                                    THEN [client[d] EXCEPT !.csrf_token = m.csrf]
                                    ELSE client[d]]
                    /\ Completed(c, "delete_page", page_name, m.res)
        /\ UNCHANGED <<wiki, gen, thread>>

\* edit_page of either class
EditPage(c, page_name, text, summary, tr, mr) ==
    LET base == EditParams(page_name, text, summary)
    IN  /\ hist.ncalls < MaxCalls
        /\ IF client[c].variant = "1_19"
           THEN LET m == Mutate1_19("edit", client[c].edit_tokens, page_name,
                                    base, tr, mr)
                IN  /\ client' = [d \in DOMAIN client |->
                                    IF d \in AttributeOwners(c)
                                    THEN [client[d] EXCEPT !.edit_tokens = m.cache]
                                    ELSE client[d]]
                    /\ Completed(c, "edit_page", page_name, m.res)
           ELSE LET m == Mutate1_31(client[c].csrf_token, base, tr, mr)
                IN  /\ client' = [d \in DOMAIN client |->
                                    IF d \in AttributeOwners(c)
                                    THEN [client[d] EXCEPT !.csrf_token = m.csrf]
                                    ELSE client[d]]
                    /\ Completed(c, "edit_page", page_name, m.res)
        /\ UNCHANGED <<wiki, gen, thread>>

(***************************** concurrent calls ****************************)
\* The steps of edit_page / delete_page that a thread takes one at a time;
\* between two of them another thread of the same instance may run.

CacheOf(cl, op) == IF op = "edit" THEN cl.edit_tokens ELSE cl.delete_tokens

BaseOf(op, page_name) ==
    IF op = "delete" THEN DeleteParams(page_name, <<>>)
    ELSE EditParams(page_name, "text", <<>>)

\* a thread enters edit_page (op "edit") or delete_page (op "delete") of c
Start(t, c, op, page_name) ==
    /\ thread[t].pc = "idle"
    /\ thread' = [thread EXCEPT ![t] =
                    [NoThread EXCEPT !.pc = "check", !.self = c, !.op = op,
                                     !.page_name = page_name]]
    /\ UNCHANGED <<client, wiki, gen, last, hist>>

\* the thread evaluates the condition of the if statement
Check(t) ==
    LET th == thread[t]
        cl == client[th.self]
        missing == IF cl.variant = "1_19"
                   THEN TokenMissing(CacheOf(cl, th.op), th.page_name)
                   ELSE CsrfMissing(cl.csrf_token)
    IN  /\ th.pc = "check"
        /\ thread' = [thread EXCEPT ![t].pc = IF missing THEN "fetch" ELSE "send"]
        /\ UNCHANGED <<client, wiki, gen, last, hist>>

\* the thread calls get_tokens / get_token, which raises or returns
FetchToken(t, tr) ==
    LET th == thread[t]
        got == IF client[th.self].variant = "1_19"
               THEN GetTokens(th.op, th.page_name, tr)
               ELSE GetToken("csrf", tr)
    IN  /\ th.pc = "fetch"
        /\ thread' = [thread EXCEPT ![t] =
                IF got.exc # NoError
                THEN [th EXCEPT !.pc = "raised", !.reqs = got.reqs, !.outcome = got.exc]
                ELSE [th EXCEPT !.pc = "store", !.reqs = got.reqs,
                                !.got = << got.value >>]]
        /\ UNCHANGED <<client, wiki, gen, last, hist>>

\* the thread stores what the fetch returned: dict.update on 1_19, the
\* assignment to self.csrf_token on 1_31
Store(t) ==
    LET th == thread[t]
        cl == client[th.self]
    IN  /\ th.pc = "store"
        /\ client' = [client EXCEPT ![th.self] =
                IF cl.variant = "1_31"
                THEN [cl EXCEPT !.csrf_token = StoreCsrf(@, th.got[1])]
                ELSE IF th.op = "edit"
                THEN [cl EXCEPT !.edit_tokens = DictUpdate(@, th.got[1])]
                ELSE [cl EXCEPT !.delete_tokens = DictUpdate(@, th.got[1])]]
        /\ thread' = [thread EXCEPT ![t].pc = "send", ![t].got = <<>>]
        /\ UNCHANGED <<wiki, gen, last, hist>>

\* the thread reads the token, sends the request and classifies the response
Send(t, mr) ==
    LET th == thread[t]
        cl == client[th.self]
        base == BaseOf(th.op, th.page_name)
        res == IF cl.variant = "1_19"
               THEN Send1_19(th.op, CacheOf(cl, th.op), th.page_name, base, mr)
               ELSE Send1_31(cl.csrf_token, base, mr)
    IN  /\ th.pc = "send"
        /\ thread' = [thread EXCEPT ![t] =
                [th EXCEPT !.pc = IF res.exc = NoError THEN "returned" ELSE "raised",
                           !.reqs = @ \o res.reqs, !.outcome = res.exc]]
        /\ UNCHANGED <<client, wiki, gen, last, hist>>

(***************************** login action ********************************)
\* mutant: the login token that get_token returned is stored in the slot
CsrfAfterLogin_Stored(csrf_token, got) ==
    IF got.exc = NoError THEN got.value ELSE csrf_token

\* token = self.get_token('login'): api_login of 1_31 binds what get_token
\* returned to a local name; the slot self.csrf_token keeps its value
CsrfAfterLogin(csrf_token, got) == csrf_token

\* api_login of either class; ra and rb answer its first and second request
ApiLogin(c, username, password, ra, rb) ==
    /\ hist.ncalls < MaxCalls
    /\ Completed(c, "api_login", "",
            IF client[c].variant = "1_19"
            THEN ApiLogin1_19(username, password, ra, rb)
            ELSE ApiLogin1_31(username, password, ra, rb))
    /\ client' = [client EXCEPT ![c].csrf_token =
                        IF client[c].variant = "1_19" THEN @
                        ELSE CsrfAfterLogin(@, GetToken("login", ra))]
    /\ UNCHANGED <<wiki, gen, thread>>

(***************************** read operations *****************************)
Texts == {"", "raw text", " padded "}

\* the response of index.php: a status and the raw body
IndexResponse(status, text) == [status_code |-> status, text |-> text]

GetPageParams(title) == [action |-> "raw", title |-> title]

\* mutant: the text is trimmed before it is returned
ReturnedText_Trimmed(text) == IF text = " padded " THEN "padded" ELSE text

\* return r.text
ReturnedText(text) == text

\* get_page of MediaWikiAPI1_31
GetPage1_31(title, r) ==
    LET x == << [method |-> "GET", url |-> "index", params |-> GetPageParams(title),
                 status_code |-> r.status_code, text |-> r.text] >>
    IN  IF r.status_code # StatusOK THEN Raised(x, StatusError(r.status_code))
        ELSE Returned(x, TextValue(ReturnedText(r.text)))

\* get_page of either class: 1_19 raises NotImplementedError
GetPage(c, title, r) ==
    LET res == IF client[c].variant = "1_19" THEN Raised(<<>>, NotImplemented)
               ELSE GetPage1_31(title, r)
    IN  /\ hist.ncalls < MaxCalls
        /\ Finished(c, "get_page", title, res,
                    IF res.exc = NoError THEN res.value ELSE NoValue)
        /\ UNCHANGED <<client, wiki, gen, thread>>

\* the keys of the platform's namespaces object, in the order it lists them
NamespaceKeys == <<"-2", "-1", "0", "1">>

\* int(namespace)
ToInt(s) ==
    CASE s = "-2" -> 0 - 2
      [] s = "-1" -> 0 - 1
      [] s = "0" -> 0
      [] s = "1" -> 1

\* body of the answer to meta=siteinfo&siprop=namespaces: the namespaces in
\* present, each under the decimal string of its id
NamespacesBody(present) ==
    [query |-> [namespaces |-> [k \in present |-> [id |-> ToInt(k)]]]]

SiteInfoParams ==
    [action |-> "query", meta |-> "siteinfo", siprop |-> "namespaces",
     format |-> "json"]

\* mutant: namespace 0 is dropped as well
KeepNamespace_Positive(namespace_id) == namespace_id > 0

\* lambda namespace_id: namespace_id >= 0
KeepNamespace(namespace_id) == namespace_id >= 0

\* get_namespace_list of either class
GetNamespaceList1(r) ==
    LET x == << Exchange("GET", "api", SiteInfoParams, r) >>
        data == r.json
    IN  IF r.status_code # StatusOK THEN Raised(x, StatusError(r.status_code))
        ELSE IF "error" \in DOMAIN data THEN Raised(x, ApiError(data["error"]))
        ELSE LET namespaces == data["query"]["namespaces"]
                 keys == SelectSeq(NamespaceKeys, LAMBDA k : k \in DOMAIN namespaces)
                 ids == [i \in 1..Len(keys) |-> ToInt(keys[i])]
             IN  Returned(x, ListValue(SelectSeq(ids, KeepNamespace)))

GetNamespaceList(c, r) ==
    LET res == GetNamespaceList1(r)
    IN  /\ hist.ncalls < MaxCalls
        /\ Finished(c, "get_namespace_list", "", res,
                    IF res.exc = NoError THEN res.value ELSE NoValue)
        /\ UNCHANGED <<client, wiki, gen, thread>>

(***************************** paging specification ************************)
InitPage ==
    /\ \E v \in Variants : client = [c \in {"c1"} |-> NewClient(v)]
    /\ \E n \in 0..MaxN : wiki = [n |-> n]
    /\ gen = [id \in {"g1"} |-> NoGen]
    /\ last = NoCall
    /\ hist = NoHist
    /\ thread = NoThreads

NextPage ==
    \/ \E c \in DOMAIN client, id \in DOMAIN gen, op \in PagedOps,
          limit \in 1..MaxLimit, fp \in {<<>>, <<2>>} :
            /\ (fp # <<>> => op = "get_page_list")
            /\ CallPaged(c, id, op, limit, fp)
    \/ \E id \in DOMAIN gen : Pull(id)
    \/ \E id \in DOMAIN gen : Fetch(id)
    \/ \E id \in DOMAIN gen : LatePull(id)

SpecPage == InitPage /\ [][NextPage]_vars


(***************************** claims: pagination **************************)
Ceil(n, l) == (n + l - 1) \div l
Max(a, b) == IF a > b THEN a ELSE b

\* the titles get_page_list is to deliver: from first_page (else 1) up to N
ExpectedTitles(g) ==
    LET from == IF g.first_page = <<>> THEN 1 ELSE g.first_page[1]
        count == Max(0, wiki.n - from + 1)
    IN  [i \in 1..count |-> from + i - 1]

IsPrefix(s, t) == Len(s) <= Len(t) /\ \A i \in 1..Len(s) : s[i] = t[i]

\* every response but the last returned a full page of `limit` titles
FullPages(g) ==
    \A i \in 1..(Len(g.trace) - 1) :
        Len(g.trace[i].json["query"]["allpages"]) = g.limit

\* C1 as stated: a drained get_page_list has delivered the titles 1..N in
\* order, each once, with exactly ceil(N/L) requests, whenever the platform
\* returns at most L titles per request and a cursor exactly when titles remain.
C1_Original ==
    \A id \in DOMAIN gen :
        LET g == gen[id]
        IN  (g.op = "get_page_list" /\ g.first_page = <<>> /\ g.pc = "done")
            => /\ g.yielded = [i \in 1..wiki.n |-> i]
               /\ Len(g.trace) = Ceil(wiki.n, g.limit)

\* C1 amended: on both variants the titles delivered so far by get_page_list
\* are always an initial part of the platform's titles in ascending order, a
\* drained sequence has delivered all N of them, each once, and when every
\* request but the last returned a full page of L titles the number of
\* requests is max(1, ceil(N/L)): one request is issued even when N = 0.
C1_Pagination ==
    \A id \in DOMAIN gen :
        LET g == gen[id]
        IN  g.op = "get_page_list"
            => /\ IsPrefix(g.yielded, ExpectedTitles(g))
               /\ g.pc = "done" =>
                    /\ g.yielded = ExpectedTitles(g)
                    /\ FullPages(g) =>
                         Len(g.trace) = Max(1, Ceil(Len(ExpectedTitles(g)), g.limit))

\* a drained get_page_list of three titles with page size two: two requests
C1_Witness ==
    \E id \in DOMAIN gen :
        /\ gen[id].op = "get_page_list" /\ gen[id].pc = "done"
        /\ gen[id].first_page = <<>> /\ gen[id].limit = 2 /\ wiki.n = 3
        /\ gen[id].yielded = <<1, 2, 3>> /\ Len(gen[id].trace) = 2

\* the response of one request was successful: status 200 and no error field
Successful(t) == t.status_code = 200 /\ "error" \notin DOMAIN t.json

\* C2: the continuation loop of every paged operation stops exactly when a
\* successful response omits the variant's continuation field
\* ('query-continue' on 1_19, 'continue' on 1_31): every response that was
\* followed by a further request was successful and carried the field, a
\* sequence that ended normally ended on a successful response without the
\* field, one that ended by an error ended on a failed response, and after a
\* successful response with the field the sequence is still running.
C2_Termination ==
    \A id \in DOMAIN gen :
        LET g == gen[id]
            n == Len(g.trace)
            field == IF client[g.self].variant = "1_19" THEN "query-continue"
                     ELSE "continue"
        IN  g.pc # "none" =>
            /\ \A i \in 1..(n - 1) :
                    Successful(g.trace[i]) /\ field \in DOMAIN g.trace[i].json
            /\ g.pc = "done" =>
                    n > 0 /\ Successful(g.trace[n]) /\ field \notin DOMAIN g.trace[n].json
            /\ g.pc = "failed" => n > 0 /\ ~Successful(g.trace[n])
            /\ (n > 0 /\ Successful(g.trace[n]) /\ field \in DOMAIN g.trace[n].json)
                    => g.pc \in {"suspended", "request"}
            /\ (g.pc = "request" /\ n > 0)
                    => Successful(g.trace[n]) /\ field \in DOMAIN g.trace[n].json

\* a drained 1_19 sequence that needed a second request
C2_Witness ==
    \E id \in DOMAIN gen :
        /\ gen[id].pc = "done" /\ client[gen[id].self].variant = "1_19"
        /\ Len(gen[id].trace) >= 2
        /\ "query-continue" \in DOMAIN gen[id].trace[1].json
        /\ "query-continue" \notin DOMAIN gen[id].trace[Len(gen[id].trace)].json


(***************************** claims: lazy sequences **********************)
\* the values the responses 1..n of a sequence make it yield, in order
RECURSIVE YieldsOf(_, _)
YieldsOf(g, n) ==
    IF n = 0 THEN <<>>
    ELSE YieldsOf(g, n - 1) \o
         (IF Successful(g.trace[n])
          THEN PageYields(g.op, g.trace[n].json["query"][g.params["list"]])
          ELSE <<>>)

\* the pages whose items have all been delivered to the consumer
DeliveredPages(g) ==
    {k \in 1..Len(g.trace) :
        Successful(g.trace[k]) /\ Len(YieldsOf(g, k)) <= Len(g.yielded)}

\* C13: a paged operation that was called and not yet pulled has issued no
\* request; a request is issued only inside a pull, when the consumer has
\* asked for one value more than it received and every item of every page
\* received so far has been delivered; between pulls no request is issued;
\* at every moment the requests issued are at most one more than the pages
\* whose items have all been delivered.
C13_PullDriven ==
    [][\A id \in DOMAIN gen :
        LET g == gen[id]
            h == gen'[id]
        IN  /\ h.pulls = 0 => h.trace = <<>>
            /\ Len(h.trace) <= Cardinality(DeliveredPages(h)) + 1
            /\ Len(h.trace) > Len(g.trace) =>
                    /\ Len(h.trace) = Len(g.trace) + 1
                    /\ g.pulls = Len(g.yielded) + 1
                    /\ g.yielded = YieldsOf(g, Len(g.trace))
                    /\ DeliveredPages(g) = 1..Len(g.trace)
            /\ (h.pulls = g.pulls /\ g.pulls = Len(g.yielded))
                    => h.trace = g.trace]_vars

\* two full pages delivered by two requests, the second one issued by the
\* third pull
C13_Witness ==
    \E id \in DOMAIN gen :
        /\ Len(gen[id].trace) = 2 /\ Len(gen[id].yielded) = 3
        /\ gen[id].pulls = 3 /\ gen[id].pc = "suspended"
        /\ Len(gen[id].trace[1].json["query"][gen[id].params["list"]]) = 2

\* C14: when the request for page k >= 2 of a lazy sequence gets a response
\* of non-success status or with an error field, the sequence ends with the
\* error of that response, raised by the pull that follows the last delivered
\* item: by then the consumer has received every item of pages 1..k-1, in
\* order, each once.  No error is raised while the responses are successful.
C14_PartialResults ==
    \A id \in DOMAIN gen :
        LET g == gen[id]
            k == Len(g.trace)
        IN  /\ (k >= 2 /\ ~Successful(g.trace[k])) =>
                    /\ g.pc = "failed"
                    /\ g.exc.exc = "MediaWikiAPIError"
                    /\ IF g.trace[k].status_code # 200
                       THEN /\ g.exc.msg = "Status code is"
                            /\ g.exc.val = g.trace[k].status_code
                       ELSE /\ g.exc.msg = "error"
                            /\ g.exc.val = g.trace[k].json["error"]
                    /\ g.yielded = YieldsOf(g, k - 1)
                    /\ g.pulls = Len(g.yielded) + 1
                    /\ g.op = "get_page_list" =>
                            g.yielded = [i \in 1..Len(g.yielded) |->
                                            ExpectedTitles(g)[i]]
            /\ (k >= 1 /\ Successful(g.trace[k])) => g.exc = NoError

\* a get_page_list whose second request failed after two titles were delivered
C14_Witness ==
    \E id \in DOMAIN gen :
        /\ gen[id].op = "get_page_list" /\ gen[id].pc = "failed"
        /\ Len(gen[id].trace) = 2 /\ gen[id].yielded = <<1, 2>>
        /\ gen[id].pulls = 3 /\ gen[id].trace[2].status_code = 500

\* the cursor mapping a client of the variant is to take from a response
CursorOf(variant, list, t) ==
    IF variant = "1_19" THEN t.json["query-continue"][list] ELSE t.json["continue"]

\* C16: in every paged operation the first request carries exactly the base
\* parameters; request k+1 carries the base parameters overridden by exactly
\* the cursor mapping of response k (1_19: the mapping under 'query-continue'
\* for the operation's own list name; 1_31: the whole 'continue' mapping);
\* no key of an older cursor is in request k+1 unless it is a base parameter
\* or a key of the cursor of response k; the base parameters stay as built.
C16_CursorForwarding ==
    \A id \in DOMAIN gen :
        LET g == gen[id]
            variant == client[g.self].variant
            base == BaseParams(g.op, 0, g.limit, g.first_page)
        IN  g.pc # "none" =>
            /\ g.params = base
            /\ Len(g.trace) >= 1 => g.trace[1].params = base
            /\ \A k \in 1..(Len(g.trace) - 1) :
                    LET cursor == CursorOf(variant, base["list"], g.trace[k])
                        req == g.trace[k + 1].params
                    IN  /\ DOMAIN req = DOMAIN base \cup DOMAIN cursor
                        /\ \A key \in DOMAIN cursor : req[key] = cursor[key]
                        /\ \A key \in DOMAIN base \ DOMAIN cursor :
                                req[key] = base[key]

\* a third request whose cursor lacks the key the cursor before it carried
C16_Witness ==
    \E id \in DOMAIN gen :
        /\ Len(gen[id].trace) >= 3
        /\ "rawcontinue" \in DOMAIN gen[id].trace[2].params
        /\ "rawcontinue" \notin DOMAIN gen[id].trace[3].params
        /\ "rawcontinue" \notin DOMAIN gen[id].params

(***************************** mutation specification **********************)
InitMut ==
    /\ \E v \in Variants : client = [c \in {"c1"} |-> NewClient(v)]
    /\ wiki = [n |-> 0]
    /\ gen = [id \in {"g1"} |-> NoGen]
    /\ last = NoCall
    /\ hist = NoHist
    /\ thread = NoThreads

\* the call will ask the platform for a token: its cache holds none
AsksToken(c, op, page_name) ==
    IF client[c].variant = "1_31" THEN client[c].csrf_token = None
    ELSE IF op = "delete" THEN page_name \notin DOMAIN client[c].delete_tokens
    ELSE page_name \notin DOMAIN client[c].edit_tokens

TokenResponse(c, op, page_name, ts, tk, tok) ==
    Response(ts, TokenBody(client[c].variant,
                    IF client[c].variant = "1_19" THEN GetTokensParams(op, page_name)
                    ELSE GetTokenParams("csrf"), tk, tok))

\* The responses the platform gives the token request and the mutation
\* request of one call.  A response, or a part of one, that no code reads is
\* fixed to one value: the token response of a call that holds a token, the
\* token of a response that carries none or is not read, the mutation response
\* of a call whose token request raised.
Answers(c, op, page_name, ts, tk, tok, ms, code) ==
    LET asks == AsksToken(c, op, page_name)
        tr == TokenResponse(c, op, page_name, ts, tk, tok)
        got == IF client[c].variant = "1_19" THEN GetTokens(op, page_name, tr)
               ELSE GetToken("csrf", tr)
    IN  /\ hist.ncalls < MaxCalls
        /\ (tk # "ok" \/ ts # StatusOK) => tok = "tok1"
        /\ ts # StatusOK => tk # "warning"
        /\ ms # StatusOK => code # "permissiondenied"
        /\ ~asks => (ts = StatusOK /\ tk = "ok" /\ tok = "tok1")
        /\ (asks /\ (ms # StatusOK \/ code # "")) => got.exc = NoError

NextMut ==
    \/ \E c \in DOMAIN client, page_name \in Titles,
          ts \in Statuses, tk \in BodyKinds, tok \in Tokens,
          ms \in Statuses, code \in ErrorCodes :
            /\ Answers(c, "delete", page_name, ts, tk, tok, ms, code)
            /\ DeletePage(c, page_name, <<>>,
                          TokenResponse(c, "delete", page_name, ts, tk, tok),
                          Response(ms, MutationBody(DeleteParams(page_name, <<>>), code)))
    \/ \E c \in DOMAIN client, page_name \in Titles,
          ts \in Statuses, tk \in BodyKinds, tok \in Tokens,
          ms \in Statuses, code \in ErrorCodes :
            /\ Answers(c, "edit", page_name, ts, tk, tok, ms, code)
            /\ EditPage(c, page_name, "text", <<>>,
                        TokenResponse(c, "edit", page_name, ts, tk, tok),
                        Response(ms, MutationBody(EditParams(page_name, "text", <<>>), code)))

SpecMut == InitMut /\ [][NextMut]_vars


(***************************** claims: tokens ******************************)
TokenFetches(call) == {i \in 1..Len(call.reqs) : IsTokenFetch(call.reqs[i])}
Mutations(call) == {i \in 1..Len(call.reqs) : IsMutation(call.reqs[i])}
IsEditOrDelete(call) == call.op \in {"edit_page", "delete_page"}
TypeOf(call) == IF call.op = "edit_page" THEN "edit" ELSE "delete"

\* C3: in a 1_31 session of edit_page and delete_page calls whose token fetch
\* succeeds, exactly one CSRF token-fetch request has been issued in total, no
\* edit or delete request was issued before it, every edit and delete request
\* carried the token it returned, and that token is the one the client holds.
C3_TokenReuse ==
    \A c \in DOMAIN client :
        (client[c].variant = "1_31" /\ hist.ncalls >= 1 /\ ~hist.fetch_failed)
        => /\ hist.nfetch = 1
           /\ ~hist.unfetched
           /\ hist.nmut = hist.ncalls
           /\ Cardinality(hist.fetched) = 1
           /\ hist.sent = hist.fetched
           /\ client[c].csrf_token \in hist.fetched
           /\ (hist.ncalls = 1 =>
                    /\ TokenFetches(last) = {1}
                    /\ last.reqs[1].params["type"] = "csrf"
                    /\ Mutations(last) = {2})
           /\ (hist.ncalls > 1 => TokenFetches(last) = {} /\ Mutations(last) = {1})

\* three mutating calls on 1_31, edits and a delete, after one token fetch
C3_Witness ==
    /\ client["c1"].variant = "1_31"
    /\ hist.ncalls = 3 /\ hist.nfetch = 1 /\ hist.nmut = 3 /\ ~hist.fetch_failed
    /\ {"edit_page", "delete_page"} \subseteq {x[1] : x \in hist.called}
    /\ last.op = "edit_page" /\ last.outcome = NoError

KeepsTokens(cl, cl2) ==
    /\ \A t \in DOMAIN cl.edit_tokens :
            t \in DOMAIN cl2.edit_tokens /\ cl2.edit_tokens[t] = cl.edit_tokens[t]
    /\ \A t \in DOMAIN cl.delete_tokens :
            t \in DOMAIN cl2.delete_tokens /\ cl2.delete_tokens[t] = cl.delete_tokens[t]
    /\ cl.csrf_token # "<None>" => cl2.csrf_token = cl.csrf_token

\* the token the call would find in the caches of instance cl (as the value
\* of the request parameter), in a sequence; the empty sequence if none
CachedFor(cl, call) ==
    IF cl.variant = "1_31"
    THEN IF cl.csrf_token = "<None>" THEN <<>> ELSE << cl.csrf_token >>
    ELSE LET cache == IF call.op = "edit_page" THEN cl.edit_tokens
                      ELSE cl.delete_tokens
         IN  IF call.title \in DOMAIN cache THEN << << cache[call.title] >> >>
             ELSE <<>>

\* C17: a token stored in a client's cache (per title and type on 1_19, the
\* CSRF slot on 1_31) is never removed or replaced by a later edit_page or
\* delete_page call, whether the platform accepts or rejects its mutation;
\* a call that finds its token cached issues no token fetch and sends the
\* cached value; a rejected mutation ends its call with the API error of the
\* response (CanNotDelete for 'cantdelete' on 1_19).
C17_NoInvalidation ==
    [][(hist'.ncalls = hist.ncalls + 1 /\ IsEditOrDelete(last'))
       => LET call == last'
              before == client[call.self]
          IN  /\ \A c \in DOMAIN client : KeepsTokens(client[c], client'[c])
              /\ CachedFor(before, call) # <<>> =>
                    /\ TokenFetches(call) = {}
                    /\ Mutations(call) = {1}
                    /\ call.reqs[1].params["token"] = CachedFor(before, call)[1]
              /\ \A i \in Mutations(call) :
                    (call.reqs[i].status_code = 200
                        /\ "error" \in DOMAIN call.reqs[i].json)
                    => /\ call.outcome.exc \in {"MediaWikiAPIError", "CanNotDelete"}
                       /\ call.outcome.exc = "CanNotDelete" =>
                            call.reqs[i].json["error"]["code"] = "cantdelete"
                       /\ call.outcome.exc = "MediaWikiAPIError" =>
                            call.outcome = ApiError(call.reqs[i].json["error"])]_vars

\* the token fetch at position i of the call returned tokens to get_tokens'
\* caller: status 200, neither an error nor a warning field
FetchSucceeded(call, i) ==
    /\ i \in TokenFetches(call)
    /\ call.reqs[i].status_code = 200
    /\ "error" \notin DOMAIN call.reqs[i].json
    /\ "warning" \notin DOMAIN call.reqs[i].json

\* C21: whenever edit_page or delete_page of 1_19 is called for a title T
\* with no token cached for T and its token fetch succeeds, the cache
\* afterwards holds an entry for T and the mutation request is sent with that
\* entry as its token; this also when the page entry of the token response is
\* keyed by a title other than the string T (a normalised title).
C21_LookupAfterFetch ==
    [][(hist'.ncalls = hist.ncalls + 1 /\ client[last'.self].variant = "1_19"
            /\ IsEditOrDelete(last')
            /\ CachedFor(client[last'.self], last') = <<>>
            /\ FetchSucceeded(last', 1))
       => LET call == last'
              cache == IF call.op = "edit_page" THEN client'[call.self].edit_tokens
                       ELSE client'[call.self].delete_tokens
          IN  /\ call.title \in DOMAIN cache
              /\ Mutations(call) = {2}
              /\ call.reqs[2].params["token"] = << cache[call.title] >>]_vars

\* C21 restricted to token responses keyed by the requested string: the same
\* statement for the calls whose token response reports the page under the
\* title that was asked for
C21_SameTitle ==
    [][(hist'.ncalls = hist.ncalls + 1 /\ client[last'.self].variant = "1_19"
            /\ IsEditOrDelete(last')
            /\ CachedFor(client[last'.self], last') = <<>>
            /\ FetchSucceeded(last', 1)
            /\ last'.reqs[1].json["query"]["pages"]["1"]["title"] = last'.title)
       => LET call == last'
              cache == IF call.op = "edit_page" THEN client'[call.self].edit_tokens
                       ELSE client'[call.self].delete_tokens
          IN  /\ call.title \in DOMAIN cache
              /\ Mutations(call) = {2}
              /\ call.reqs[2].params["token"] = << cache[call.title] >>]_vars

\* a call on 'b' whose token fetch succeeded: the entry is stored under 'B',
\* the lookup of 'b' raises KeyError and no mutation request is sent
C21_KeyErrorReached ==
    /\ client["c1"].variant = "1_19"
    /\ last.title = "b" /\ IsEditOrDelete(last)
    /\ FetchSucceeded(last, 1)
    /\ last.outcome = KeyError("b")
    /\ Mutations(last) = {}

(***************************** claims: error kinds *************************)
HasError(x) == "error" \in DOMAIN x.json

\* C5: on every variant delete_page ends with CanNotDelete exactly when the
\* delete response carries an error of code 'cantdelete'; an error of another
\* code ends it with a MediaWikiAPIError that is no CanNotDelete.
C5_DeletionDenied ==
    \A i \in Mutations(last) :
        (last.op = "delete_page" /\ last.reqs[i].status_code = 200
            /\ HasError(last.reqs[i]))
        => /\ last.outcome.exc = "CanNotDelete"
                <=> last.reqs[i].json["error"]["code"] = "cantdelete"
           /\ last.outcome.exc \in {"CanNotDelete", "MediaWikiAPIError"}

\* C9: when the token fetch of an edit_page or delete_page call fails, by a
\* non-success status or by a body carrying an error field, the call ends with
\* MediaWikiAPIError and issues no mutation request.
C9_TokenFetchFailure ==
    \A i \in TokenFetches(last) :
        (IsEditOrDelete(last)
            /\ (last.reqs[i].status_code # 200 \/ HasError(last.reqs[i])))
        => /\ last.outcome.exc = "MediaWikiAPIError"
           /\ Mutations(last) = {}

\* C10: in every call, a response of non-success status ends the call with
\* the status error whatever its body; otherwise a body carrying an error field
\* ends it with the API error of that field; a call ends normally only when
\* every response had success status and no error field.
C10_Classification ==
    \A i \in 1..Len(last.reqs) :
        LET x == last.reqs[i]
        IN  /\ x.status_code # 200 => last.outcome = StatusError(x.status_code)
            /\ (x.status_code = 200 /\ HasError(x)) =>
                    \/ last.outcome = ApiError(x.json["error"])
                    \/ last.outcome = CanNotDelete(x.json["error"]["info"])
            /\ last.outcome = NoError => (x.status_code = 200 /\ ~HasError(x))


(***************************** login specification *************************)
\* api_login on 1_19: the platform answers the first and the second login
\* request.  The answer to a request that is not sent is fixed to one value.
LoginStep1_19 ==
    \E c \in DOMAIN client,
       s1 \in Statuses, res1 \in LoginResults, tok1 \in LoginTokens,
       w1 \in BOOLEAN, e1 \in BOOLEAN,
       s2 \in Statuses, res2 \in LoginResults, w2 \in BOOLEAN, e2 \in BOOLEAN :
        LET r1 == Response(s1, LoginBody(res1, tok1, w1, e1))
            r2 == Response(s2, LoginBody(res2, "ltok2", w2, e2))
        IN  /\ hist.ncalls < MaxCalls
            /\ client[c].variant = "1_19"
            /\ (res1 # "NeedToken" \/ e1) => tok1 = "ltok1"
            /\ e1 => (res1 = "Success" /\ ~w1)
            /\ e2 => (res2 = "Success" /\ ~w2)
            /\ (s1 # StatusOK \/ e1 \/ w1 \/ res1 # "NeedToken")
                    => (s2 = StatusOK /\ res2 = "Success" /\ ~w2 /\ ~e2)
            /\ ApiLogin(c, "user", "secret", r1, r2)

\* api_login on 1_31: the platform answers the token request and the login
\* request
LoginStep1_31 ==
    \E c \in DOMAIN client,
       ts \in Statuses, tk \in BodyKinds, tok \in LoginTokens,
       s \in Statuses, res \in LoginResults, w \in BOOLEAN, e \in BOOLEAN :
        LET tr == Response(ts, TokenBody("1_31", GetTokenParams("login"), tk, tok))
            r == Response(s, LoginBody(res, "ltok2", w, e))
        IN  /\ hist.ncalls < MaxCalls
            /\ client[c].variant = "1_31"
            /\ (tk = "error" \/ ts # StatusOK) => tok = "ltok1"
            /\ e => (res = "Success" /\ ~w)
            /\ (ts # StatusOK \/ tk = "error")
                    => (s = StatusOK /\ res = "Success" /\ ~w /\ ~e)
            /\ ApiLogin(c, "user", "secret", tr, r)

InitLogin == InitMut

NextLogin == LoginStep1_19 \/ LoginStep1_31

SpecLogin == InitLogin /\ [][NextLogin]_vars


(***************************** claims: login *******************************)
LoginRequests(call) == {i \in 1..Len(call.reqs) : IsLoginRequest(call.reqs[i])}
HasWarning(x) == "warning" \in DOMAIN x.json
\* a login response that reports a result: status 200, no error, no warning
Reports(x) == x.status_code = 200 /\ ~HasError(x) /\ ~HasWarning(x)
ResultOf(x) == x.json["login"]["result"]
IsLogin(variant) ==
    last.op = "api_login" /\ client[last.self].variant = variant

\* C6: api_login of 1_19 issues one login request, and a second one exactly
\* when the first response reports NeedToken: the second carries the token of
\* the first response and the same credentials, and there is never a third.
\* Success on the first attempt ends the call normally after one request; a
\* first result other than Success and NeedToken, and a second result other
\* than Success, end it with the error carrying that result string.
C6_LegacyLogin ==
    IsLogin("1_19") =>
        LET n == Len(last.reqs)
            x1 == last.reqs[1]
            x2 == last.reqs[2]
        IN  /\ n \in {1, 2}
            /\ LoginRequests(last) = 1..n
            /\ "lgtoken" \notin DOMAIN x1.params
            /\ n = 2 <=> (Reports(x1) /\ ResultOf(x1) = "NeedToken")
            /\ (Reports(x1) /\ ResultOf(x1) = "Success") => last.outcome = NoError
            /\ (Reports(x1) /\ ResultOf(x1) \notin {"Success", "NeedToken"})
                    => last.outcome = LoginError(ResultOf(x1))
            /\ n = 2 =>
                /\ x2.params = DictUpdate(x1.params,
                                          [lgtoken |-> x1.json["login"]["token"]])
                /\ (Reports(x2) /\ ResultOf(x2) = "Success") => last.outcome = NoError
                /\ (Reports(x2) /\ ResultOf(x2) # "Success")
                        => last.outcome = LoginError(ResultOf(x2))
            /\ last.outcome = NoError =>
                    Reports(last.reqs[n]) /\ ResultOf(last.reqs[n]) = "Success"

\* a 1_19 login that was challenged and succeeded on its second attempt
C6_Witness ==
    /\ IsLogin("1_19") /\ Len(last.reqs) = 2
    /\ ResultOf(last.reqs[1]) = "NeedToken"
    /\ last.reqs[2].params["lgtoken"] = "ltok2"
    /\ Reports(last.reqs[2]) /\ ResultOf(last.reqs[2]) = "Success"
    /\ last.outcome = NoError

\* C7: api_login of 1_31 first fetches a login token, then sends exactly one
\* credentials request carrying it; it ends normally only if the reported
\* result is Success, and any other reported result ends it with the error
\* carrying that result string.
C7_ModernLogin ==
    IsLogin("1_31") =>
        /\ IsLoginTokenFetch(last.reqs[1])
        /\ LoginRequests(last) \subseteq {2}
        /\ \A i \in LoginRequests(last) :
            LET x == last.reqs[i]
            IN  /\ x.params["lgtoken"] =
                        last.reqs[1].json["query"]["tokens"]["logintoken"]
                /\ (x.status_code = 200 /\ ~HasError(x)) =>
                        /\ last.outcome = NoError <=> ResultOf(x) = "Success"
                        /\ ResultOf(x) # "Success"
                                => last.outcome = LoginError(ResultOf(x))

\* C8: on either variant a login response whose body contains a warning field
\* makes api_login end with a MediaWikiAPIError.
C8_LoginWarning ==
    \A i \in LoginRequests(last) :
        (last.op = "api_login" /\ HasWarning(last.reqs[i]))
        => last.outcome.exc = "MediaWikiAPIError"


(***************************** read specification **************************)
\* One session of get_page, get_namespace_list, the search_pages of 1_19 and
\* successful edits of page A, which fill the token cache.
InitRead == InitMut

NextRead ==
    \/ \E c \in DOMAIN client, title \in {"A", "B"}, s \in Statuses, text \in Texts :
            /\ (s # StatusOK \/ client[c].variant = "1_19") => text = ""
            /\ (client[c].variant = "1_19") => s = StatusOK
            /\ GetPage(c, title, IndexResponse(s, text))
    \/ \E c \in DOMAIN client, s \in Statuses, ok \in BOOLEAN,
          present \in SUBSET {NamespaceKeys[i] : i \in 1..Len(NamespaceKeys)} :
            /\ (s # StatusOK \/ ~ok) => present = {}
            /\ (s # StatusOK) => ok
            /\ GetNamespaceList(c, Response(s, IF ok THEN NamespacesBody(present)
                                               ELSE ErrorBody("readapidenied")))
    \/ \E c \in DOMAIN client, id \in DOMAIN gen, limit \in 1..MaxLimit :
            /\ client[c].variant = "1_19"
            /\ last.op # "search_pages"
            /\ CallPaged(c, id, "search_pages", limit, <<>>)
    \/ \E c \in DOMAIN client, tok \in Tokens :
            /\ hist.nmut = 0
            /\ EditPage(c, "A", "text", <<>>,
                        TokenResponse(c, "edit", "A", StatusOK, "ok", tok),
                        Response(StatusOK, MutationBody(EditParams("A", "text", <<>>), "")))

SpecRead == InitRead /\ [][NextRead]_vars

(***************************** claims: read operations *********************)
\* C11: on 1_19, get_page and search_pages end with NotImplementedError at the
\* call, issue no request and leave the client's fields and its lazy
\* sequences as they were; on 1_31, get_page issues exactly one GET to the
\* index endpoint with action=raw and the title, and when the status is 200
\* it returns the text of the response unchanged.
C11_Unsupported ==
    [][((last' # last \/ hist'.ncalls # hist.ncalls)
            /\ last'.op \in {"get_page", "search_pages"})
       => IF client[last'.self].variant = "1_19"
          THEN /\ last'.outcome.exc = "NotImplementedError"
               /\ last'.reqs = <<>>
               /\ client' = client
               /\ gen' = gen
               /\ hist'.nfetch = hist.nfetch /\ hist'.nmut = hist.nmut
          ELSE last'.op = "get_page" =>
               /\ Len(last'.reqs) = 1
               /\ last'.reqs[1].method = "GET"
               /\ last'.reqs[1].url = "index"
               /\ last'.reqs[1].params = [action |-> "raw", title |-> last'.title]
               /\ client' = client
               /\ last'.reqs[1].status_code = 200 =>
                    /\ last'.outcome = NoError
                    /\ last'.value.kind = "str"
                    /\ last'.value.text = last'.reqs[1].text]_vars

\* a 1_31 get_page that returned a text with surrounding blanks as it came
C11_Witness ==
    /\ last.op = "get_page" /\ client[last.self].variant = "1_31"
    /\ last.reqs[1].status_code = 200 /\ last.reqs[1].text = " padded "
    /\ last.value.text = " padded "
    /\ client[last.self].csrf_token # "<None>"

\* the ids a get_namespace_list call returned
ReturnedIds(call) == {call.value.ids[i] : i \in 1..Len(call.value.ids)}
\* the ids of the namespaces in the response the call got
RawIds(call) ==
    LET namespaces == call.reqs[1].json["query"]["namespaces"]
    IN  {namespaces[k].id : k \in DOMAIN namespaces}

\* C12: a get_namespace_list call that returns, on either variant, returns
\* exactly the namespace ids of the response that are >= 0: no returned id is
\* negative, no id is returned twice, every id >= 0 of the response is
\* returned and no other id is.
C12_Namespaces ==
    (last.op = "get_namespace_list" /\ last.outcome = NoError)
    => /\ last.value.kind = "list"
       /\ \A id \in ReturnedIds(last) : id >= 0
       /\ ReturnedIds(last) = {id \in RawIds(last) : id >= 0}
       /\ Cardinality(ReturnedIds(last)) = Len(last.value.ids)

\* a response with the virtual namespaces -2 and -1 and the namespaces 0 and 1
C12_Witness ==
    /\ last.op = "get_namespace_list" /\ last.outcome = NoError
    /\ RawIds(last) = {0 - 2, 0 - 1, 0, 1}
    /\ last.value.ids = <<0, 1>>


(***************************** two-client specification ********************)
\* Two client instances of one class, each with its own requests.Session.
\* The platform hands each session tokens of its own.
TwoClients == {"c1", "c2"}
TokensOf(c) == IF c = "c1" THEN {"tok1"} ELSE {"tok2"}

InitTwo ==
    /\ \E v \in Variants : client = [c \in TwoClients |-> NewClient(v)]
    /\ wiki = [n |-> 0]
    /\ gen = [id \in {"g1"} |-> NoGen]
    /\ last = NoCall
    /\ hist = NoHist
    /\ thread = NoThreads

\* the answers of the platform to one call of a two-client session: the token
\* request succeeds or gets a 500, the mutation succeeds or is rejected
AnswersTwo(c, op, page_name, ts, tok, code) ==
    /\ hist.ncalls < MaxCalls
    /\ tok \in TokensOf(c)
    /\ ~AsksToken(c, op, page_name) => ts = StatusOK
    /\ ts # StatusOK => code = ""

NextTwo ==
    \/ \E c \in TwoClients, page_name \in {"A", "B"}, ts \in Statuses,
          tok \in Tokens, code \in {"", "permissiondenied"} :
            /\ AnswersTwo(c, "delete", page_name, ts, tok, code)
            /\ DeletePage(c, page_name, <<>>,
                          TokenResponse(c, "delete", page_name, ts, "ok", tok),
                          Response(StatusOK,
                                   MutationBody(DeleteParams(page_name, <<>>), code)))
    \/ \E c \in TwoClients, page_name \in {"A", "B"}, ts \in Statuses,
          tok \in Tokens, code \in {"", "permissiondenied"} :
            /\ AnswersTwo(c, "edit", page_name, ts, tok, code)
            /\ EditPage(c, page_name, "text", <<>>,
                        TokenResponse(c, "edit", page_name, ts, "ok", tok),
                        Response(StatusOK,
                                 MutationBody(EditParams(page_name, "text", <<>>), code)))

SpecTwo == InitTwo /\ [][NextTwo]_vars

(***************************** claims: session isolation *******************)
\* the token values a client holds in its caches
CachedTokens(cl) ==
    {cl.edit_tokens[t] : t \in DOMAIN cl.edit_tokens}
    \cup {cl.delete_tokens[t] : t \in DOMAIN cl.delete_tokens}
    \cup (IF cl.csrf_token = "<None>" THEN {} ELSE {cl.csrf_token})

\* the token a mutation request carries
TokenSent(variant, x) ==
    IF variant = "1_19" THEN x.params["token"][1] ELSE x.params["token"]

\* C15: each client instance starts with empty token caches; a call on one
\* instance leaves the fields of every other instance as they were; the
\* tokens an instance holds, and the tokens its edit and delete requests
\* carry, are tokens the platform returned to that instance, never those it
\* returned to the other one.
C15_Isolation ==
    [][/\ hist.ncalls = 0 =>
            \A c \in DOMAIN client :
                /\ client[c].edit_tokens = EmptyDict
                /\ client[c].delete_tokens = EmptyDict
                /\ client[c].csrf_token = "<None>"
       /\ hist'.ncalls = hist.ncalls + 1 =>
            /\ \A c \in DOMAIN client \ {last'.self} : client'[c] = client[c]
            /\ \A i \in Mutations(last') :
                    TokenSent(client[last'.self].variant, last'.reqs[i])
                        \in TokensOf(last'.self)
            /\ \A c \in DOMAIN client : CachedTokens(client'[c]) \subseteq TokensOf(c)]_vars

\* both instances hold a token, each its own, and the last call was a
\* mutation of c2 sent with the token of c2 after c1 had fetched one
C15_Witness ==
    /\ DOMAIN client = {"c1", "c2"}
    /\ CachedTokens(client["c1"]) = {"tok1"}
    /\ CachedTokens(client["c2"]) = {"tok2"}
    /\ last.self = "c2" /\ Mutations(last) # {}
    /\ TokenSent(client["c2"].variant, last.reqs[Len(last.reqs)]) = "tok2"
    /\ Cardinality(hist.sent) = 2


(***************************** all operations ******************************)
\* One session that either runs one lazy sequence, or makes calls: edits and
\* deletions of page A, logins, get_page of page A and get_namespace_list.
InitRetry == InitPage

NextRetry ==
    \/ /\ hist.ncalls = 0 /\ last = NoCall
       /\ NextPage
    \/ /\ \A id \in DOMAIN gen : gen[id].pc = "none"
       /\ wiki.n = 0
       /\ \/ NextLogin
          \/ \E c \in DOMAIN client, s \in Statuses :
                    /\ (client[c].variant = "1_19") => s = StatusOK
                    /\ GetPage(c, "A", IndexResponse(s, "raw text"))
          \/ \E c \in DOMAIN client, s \in Statuses, ok \in BOOLEAN :
                    /\ (s # StatusOK) => ok
                    /\ GetNamespaceList(c,
                            Response(s, IF ok THEN NamespacesBody({"-1", "0"})
                                        ELSE ErrorBody("readapidenied")))
          \/ \E c \in DOMAIN client, ts \in Statuses, tk \in BodyKinds,
                tok \in {"tok1"}, ms \in Statuses, code \in ErrorCodes :
                    /\ Answers(c, "delete", "A", ts, tk, tok, ms, code)
                    /\ DeletePage(c, "A", <<>>,
                            TokenResponse(c, "delete", "A", ts, tk, tok),
                            Response(ms, MutationBody(DeleteParams("A", <<>>), code)))
          \/ \E c \in DOMAIN client, ts \in Statuses, tk \in BodyKinds,
                tok \in {"tok1"}, ms \in Statuses, code \in ErrorCodes :
                    /\ Answers(c, "edit", "A", ts, tk, tok, ms, code)
                    /\ EditPage(c, "A", "text", <<>>,
                            TokenResponse(c, "edit", "A", ts, tk, tok),
                            Response(ms, MutationBody(EditParams("A", "text", <<>>),
                                                      code)))

SpecRetry == InitRetry /\ [][NextRetry]_vars

(***************************** claims: no retry ****************************)
LoginTokenFetches(call) == {i \in 1..Len(call.reqs) : IsLoginTokenFetch(call.reqs[i])}

\* the request got a response of non-success status or with an error field
Failed(x) == x.status_code # 200 \/ "error" \in DOMAIN x.json

\* C18: a call issues each of its requests at most once: at most one token
\* fetch and one mutation request (edit_page, delete_page), one login-token
\* fetch and one login request (api_login of 1_31), one request (get_page,
\* get_namespace_list), and on 1_19 one login request or, when the first
\* reported NeedToken, two.  A request that got a non-success status or an
\* error field is the last request of its call or of its lazy sequence; a
\* lazy sequence that has ended issues no request and yields no item on
\* later pulls.
C18_NoRetry ==
    [][/\ LET call == last'
              n == Len(call.reqs)
          IN  /\ \A i \in 1..(n - 1) : ~Failed(call.reqs[i])
              /\ Cardinality(TokenFetches(call)) <= 1
              /\ Cardinality(Mutations(call)) <= 1
              /\ Cardinality(LoginTokenFetches(call)) <= 1
              /\ Cardinality(LoginRequests(call)) <= 2
              /\ n <= 2
              /\ call.op \in {"get_page", "get_namespace_list"} => n <= 1
              /\ Cardinality(LoginRequests(call)) = 2 =>
                    /\ client[call.self].variant = "1_19"
                    /\ ResultOf(call.reqs[1]) = "NeedToken"
                    /\ "lgtoken" \notin DOMAIN call.reqs[1].params
                    /\ "lgtoken" \in DOMAIN call.reqs[2].params
       /\ \A id \in DOMAIN gen :
            LET g == gen[id]
                h == gen'[id]
            IN  /\ \A i \in 1..(Len(h.trace) - 1) : ~Failed(h.trace[i])
                /\ h.pc = "failed" => Failed(h.trace[Len(h.trace)])
                /\ g.pc \in {"done", "failed"} =>
                        /\ h.pc = g.pc
                        /\ h.trace = g.trace
                        /\ h.yielded = g.yielded]_vars

\* a lazy sequence whose second request failed, pulled once more after that
C18_Witness ==
    \E id \in DOMAIN gen :
        /\ gen[id].pc = "failed" /\ gen[id].late = 1
        /\ Len(gen[id].trace) = 2 /\ Len(gen[id].yielded) >= 1


(***************************** concurrent specification ********************)
\* Two threads, each making one edit_page or delete_page call on the one
\* client instance, whose caches start empty.
InitThreads == InitMut

NextThreads ==
    \/ \E t \in Threads, c \in DOMAIN client, op \in {"edit", "delete"},
          page_name \in {"A", "b"} : Start(t, c, op, page_name)
    \/ \E t \in Threads : Check(t)
    \/ \E t \in Threads, ts \in Statuses, tk \in BodyKinds, tok \in Tokens :
            /\ thread[t].pc = "fetch"
            /\ (tk # "ok" \/ ts # StatusOK) => tok = "tok1"
            /\ ts # StatusOK => tk = "ok"
            /\ FetchToken(t, TokenResponse(thread[t].self, thread[t].op,
                                           thread[t].page_name, ts, tk, tok))
    \/ \E t \in Threads : Store(t)
    \/ \E t \in Threads, ms \in Statuses, code \in {"", "permissiondenied"} :
            /\ thread[t].pc = "send"
            /\ ms # StatusOK => code = ""
            /\ Send(t, Response(ms, MutationBody(
                                        BaseOf(thread[t].op, thread[t].page_name), code)))

SpecThreads == InitThreads /\ [][NextThreads]_vars

(***************************** claims: concurrency *************************)
\* the token values a token fetch returned to its caller
TokensReturned(x) ==
    IF ~(IsTokenFetch(x) /\ FetchReturned(x)) THEN {}
    ELSE IF "intoken" \in DOMAIN x.params
    THEN {x.json["query"]["pages"][k][TokenKey(x.params["intoken"])] :
            k \in DOMAIN x.json["query"]["pages"]}
    ELSE {x.json["query"]["tokens"]["csrftoken"]}

\* the token values returned by the token fetches of all threads so far
FetchedByThreads ==
    UNION {UNION {TokensReturned(thread[t].reqs[i]) : i \in 1..Len(thread[t].reqs)} :
            t \in Threads}

\* C19: in every interleaving of the check, fetch, store and send steps of
\* two edit_page or delete_page calls that run concurrently on one client
\* instance whose cache starts empty, each call issues at most one token
\* fetch, the cache holds nothing but values that some token fetch returned,
\* and every mutation request carries a value that some token fetch returned.
C19_Concurrent ==
    /\ \A t \in Threads :
            /\ Cardinality(TokenFetches(thread[t])) <= 1
            /\ Cardinality(Mutations(thread[t])) <= 1
            /\ \A i \in Mutations(thread[t]) :
                    TokenSent(client[thread[t].self].variant, thread[t].reqs[i])
                        \in FetchedByThreads
    /\ \A c \in DOMAIN client : CachedTokens(client[c]) \subseteq FetchedByThreads

\* both calls fetched a token, tok1 and tok2, and the call that fetched tok1
\* sent its mutation with tok2, which the other call had stored meanwhile
C19_Witness ==
    /\ \A t \in Threads :
            thread[t].pc = "returned" /\ Cardinality(TokenFetches(thread[t])) = 1
    /\ FetchedByThreads = {"tok1", "tok2"}
    /\ TokensReturned(thread["t1"].reqs[1]) = {"tok1"}
    /\ TokenSent(client["c1"].variant, thread["t1"].reqs[2]) = "tok2"


(***************************** two lazy sequences **************************)
\* Two lazy sequences of one client instance, pulled in any order.  The
\* platform returns full pages; a request may also fail.
InitGens ==
    /\ \E v \in Variants : client = [c \in {"c1"} |-> NewClient(v)]
    /\ \E n \in 0..MaxN : wiki = [n |-> n]
    /\ gen = [id \in {"g1", "g2"} |-> NoGen]
    /\ last = NoCall
    /\ hist = NoHist
    /\ thread = NoThreads

NextGens ==
    \/ \E c \in DOMAIN client, id \in DOMAIN gen,
          op \in {"get_page_list", "get_image_list"}, limit \in 1..MaxLimit :
            CallPaged(c, id, op, limit, <<>>)
    \/ \E id \in DOMAIN gen : Pull(id)
    \/ \E id \in DOMAIN gen, s \in Statuses, k \in 0..MaxLimit :
            /\ gen[id].pc = "request"
            /\ k = Min(gen[id].limit,
                       Remaining(client[gen[id].self].variant, CurrentParams(gen[id])))
            /\ FetchWith(id, s, TRUE, k)

SpecGens == InitGens /\ [][NextGens]_vars

(***************************** claims: private cursors *********************)
\* what a sequence yields when it is drained alone: an entry for each of the
\* platform's N items, in order
Alone(g) ==
    [i \in 1..wiki.n |->
        IF g.op = "get_page_list" THEN i ELSE [title |-> i, url |-> i]]

\* C20: of two lazy sequences of one client instance that are pulled in any
\* interleaved order, each sends as its first request its own base
\* parameters with no cursor, so a further call of an operation starts at
\* the first page; each later request of a sequence carries its own base
\* parameters overridden by the cursor of its own previous response; the
\* items a sequence has yielded are the first ones it yields when drained
\* alone, and are all of them when it has ended normally.
C20_PrivateCursor ==
    \A id \in DOMAIN gen :
        LET g == gen[id]
            variant == client[g.self].variant
            base == BaseParams(g.op, 0, g.limit, g.first_page)
        IN  g.pc # "none" =>
            /\ g.params = base
            /\ Len(g.trace) >= 1 => g.trace[1].params = base
            /\ \A k \in 1..(Len(g.trace) - 1) :
                    g.trace[k + 1].params =
                        DictUpdate(base, CursorOf(variant, base["list"], g.trace[k]))
            /\ IsPrefix(g.yielded, Alone(g))
            /\ g.pc = "done" => g.yielded = Alone(g)

\* two running sequences of the same operation with different page sizes,
\* each after its second request
C20_Witness ==
    /\ DOMAIN gen = {"g1", "g2"}
    /\ gen["g1"].op = gen["g2"].op
    /\ gen["g1"].limit = 1 /\ gen["g2"].limit = 2
    /\ Len(gen["g1"].trace) = 2 /\ Len(gen["g2"].trace) = 2
    /\ gen["g1"].pc = "suspended" /\ gen["g2"].pc = "suspended"
    /\ Len(gen["g1"].yielded) = 2 /\ Len(gen["g2"].yielded) = 3

(***************************** logins among mutations **********************)
\* One instance on which logins, edits and deletions of the pages A and b
\* follow one another in any order.  A login on 1_19 succeeds at once, needs
\* a token and then succeeds or fails, or ends on a bad status; a login on
\* 1_31 gets its login token or not, and then succeeds or ends on a bad status.
InitSession == InitMut

SessionTitles == {"A", "b"}

NextSession ==
    \/ \E c \in DOMAIN client, s1 \in Statuses, res1 \in {"Success", "NeedToken"},
          res2 \in {"Success", "Failed"} :
            /\ client[c].variant = "1_19"
            /\ (s1 # StatusOK \/ res1 # "NeedToken") => res2 = "Success"
            /\ s1 # StatusOK => res1 = "Success"
            /\ ApiLogin(c, "user", "secret",
                        Response(s1, LoginBody(res1, "ltok1", FALSE, FALSE)),
                        Response(StatusOK, LoginBody(res2, "ltok2", FALSE, FALSE)))
    \/ \E c \in DOMAIN client, ts \in Statuses, tk \in {"ok", "error"},
          s \in Statuses :
            /\ client[c].variant = "1_31"
            /\ ts # StatusOK => tk = "ok"
            /\ (ts # StatusOK \/ tk = "error") => s = StatusOK
            /\ ApiLogin(c, "user", "secret",
                        Response(ts, TokenBody("1_31", GetTokenParams("login"),
                                               tk, "ltok1")),
                        Response(s, LoginBody("Success", "ltok2", FALSE, FALSE)))
    \/ \E c \in DOMAIN client, page_name \in SessionTitles,
          ts \in Statuses, tk \in {"ok", "error"}, tok \in Tokens,
          code \in {"", "permissiondenied"} :
            /\ Answers(c, "delete", page_name, ts, tk, tok, StatusOK, code)
            /\ DeletePage(c, page_name, <<>>,
                          TokenResponse(c, "delete", page_name, ts, tk, tok),
                          Response(StatusOK,
                                   MutationBody(DeleteParams(page_name, <<>>), code)))
    \/ \E c \in DOMAIN client, page_name \in SessionTitles,
          ts \in Statuses, tk \in {"ok", "error"}, tok \in Tokens,
          code \in {"", "permissiondenied"} :
            /\ Answers(c, "edit", page_name, ts, tk, tok, StatusOK, code)
            /\ EditPage(c, page_name, "text", <<>>,
                        TokenResponse(c, "edit", page_name, ts, tk, tok),
                        Response(StatusOK,
                                 MutationBody(EditParams(page_name, "text", <<>>), code)))

SpecSession == InitSession /\ [][NextSession]_vars

(***************************** claims: login and the token cache ***********)
\* the request asked for a token and get_tokens / get_token raised on its
\* response
TokenFetchFailed(x) ==
    /\ IsTokenFetch(x) \/ IsLoginTokenFetch(x)
    /\ \/ x.status_code # 200
       \/ "error" \in DOMAIN x.json
       \/ "intoken" \in DOMAIN x.params /\ "warning" \in DOMAIN x.json

\* the call ended on a token fetch that failed
EndedOnFailedFetch(call) ==
    /\ Len(call.reqs) = 1
    /\ TokenFetchFailed(call.reqs[1])
    /\ call.outcome # NoError

\* C22: api_login leaves the token caches of its instance as they were, on
\* both variants and whether it returns or raises; on 1_31 the login token is
\* never the value of csrf_token.  An edit_page or delete_page call fetches a
\* token exactly when its cache holds none for it, so a call made after a
\* login with its token cached issues no token fetch and sends the cached
\* value.  A call, login or mutation, that ends on a failed token fetch leaves
\* the caches as they were, and a mutation of the same type and title that
\* directly follows it fetches again.
C22_LoginFrame ==
    [][(hist'.ncalls = hist.ncalls + 1)
       => LET call == last'
              before == client[call.self]
          IN  /\ call.op = "api_login" => client' = client
              /\ \A c \in DOMAIN client' :
                    client'[c].csrf_token \notin {"ltok1", "ltok2"}
              /\ EndedOnFailedFetch(call) => client' = client
              /\ IsEditOrDelete(call) =>
                    /\ TokenFetches(call) # {} <=> CachedFor(before, call) = <<>>
                    /\ TokenFetches(call) \subseteq {1}
                    /\ CachedFor(before, call) # <<>> =>
                            /\ Mutations(call) = {1}
                            /\ call.reqs[1].params["token"] = CachedFor(before, call)[1]
              /\ (IsEditOrDelete(call) /\ IsEditOrDelete(last)
                        /\ EndedOnFailedFetch(last)
                        /\ (before.variant = "1_19" =>
                                call.op = last.op /\ call.title = last.title))
                 => TokenFetches(call) = {1}]_vars

\* a successful login on 1_31 made while the slot holds the CSRF token tok2
\* that an earlier edit or deletion fetched: the slot still holds tok2
C22_Witness ==
    /\ client["c1"].variant = "1_31"
    /\ hist.ncalls = 2 /\ hist.nfetch = 1 /\ hist.fetched = {"tok2"}
    /\ last.op = "api_login" /\ last.outcome = NoError
    /\ Len(last.reqs) = 2
    /\ last.reqs[1].json["query"]["tokens"]["logintoken"] = "ltok1"
    /\ client["c1"].csrf_token = "tok2"

=============================================================================
